---- MODULE Spec2Model ----
(***************************************************************************)
(* Model of the WebSocket chat fan-out service,                            *)
(* src/usecases/websocket_chat/src/main.rs.                                *)
(*                                                                         *)
(* One handle_socket invocation per connection.  Each invocation creates   *)
(* its OWN broadcast channel (line 83), stores that channel's Sender in    *)
(* the registry (line 86) and spawns a forwarding task draining that       *)
(* channel's Receiver (lines 90-97).  The inbound reader publishes decoded *)
(* messages on the SHARED channel state.tx (line 105), whose only Receiver *)
(* was dropped at construction (line 44).                                  *)
(***************************************************************************)
EXTENDS Integers, Sequences, FiniteSets, TLC

\* ------------------------------------------------------------------ bounds

\* Capacity of a broadcast channel.  The program uses 100 (lines 44 and 83);
\* the model scales it down so that overflow is reachable.
Capacity == 1

\* Number of valid messages the inbound readers may publish in one run.
MaxPublish == 1

\* Number of sends an outside holder of the registry may perform (OpenSpec).
MaxSends == 2

\* ------------------------------------------------------------- value sets

\* Connection identifiers (uuid v4 strings, line 80): unique per connection.
\* The identifiers are opaque and fresh, so they are named in the order in
\* which the connections are accepted.
ConnSeq == << "A", "B", "C" >>

Conns == { ConnSeq[i] : i \in 1..Len(ConnSeq) }

\* The connections accepted before c.
Earlier(c) == { ConnSeq[i] : i \in { j \in 1..Len(ConnSeq) : \E k \in (j+1)..Len(ConnSeq) : ConnSeq[k] = c } }

NoConn == "none"

\* ChatMessage values (lines 20-25).
Msgs ==
  { [username |-> "alice", content |-> "hi", timestamp |-> 1],
    [username |-> "bob",   content |-> "yo", timestamp |-> 2] }

NoMsg == [username |-> "", content |-> "", timestamp |-> 0]

\* The fields serde requires to build a ChatMessage (lines 21-25).
Required == {"username", "content", "timestamp"}

\* serde_json::to_string(&msg) (line 92): the JSON text of a ChatMessage.
\* A text is modelled by whether it parses as a JSON object, the keys of the
\* object and the values under the three known keys.
Serialize(m) ==
  [json |-> TRUE, keys |-> Required,
   username |-> m.username, content |-> m.content, timestamp |-> m.timestamp]

\* Text frames a peer may send: the two valid messages, a valid message with
\* an extra key, an object that lacks a required key, and a non-JSON text.
Texts ==
  { Serialize(m) : m \in Msgs }
  \cup { [json |-> TRUE, keys |-> Required \cup {"color"},
          username |-> "alice", content |-> "hi", timestamp |-> 1],
         [json |-> TRUE, keys |-> {"username", "content"},
          username |-> "alice", content |-> "hi", timestamp |-> 0],
         [json |-> FALSE, keys |-> {},
          username |-> "", content |-> "", timestamp |-> 0] }

\* Decode as it would be with #[serde(default)] on the fields: an absent
\* field takes its default value instead of failing the decode.
DecodeWithDefaults(t) ==
  IF t.json
  THEN [ok |-> TRUE,
        msg |-> [username |-> t.username, content |-> t.content,
                 timestamp |-> t.timestamp]]
  ELSE [ok |-> FALSE, msg |-> NoMsg]

\* serde_json::from_str::<ChatMessage>(&text) (line 103).  The derive at line
\* 20 carries no deny_unknown_fields attribute, so unknown keys are skipped.
Decode(t) ==
  IF t.json /\ Required \subseteq t.keys
  THEN [ok |-> TRUE,
        msg |-> [username |-> t.username, content |-> t.content,
                 timestamp |-> t.timestamp]]
  ELSE [ok |-> FALSE, msg |-> NoMsg]

\* Frame kinds other than Text and Close (the `_ => {}` arm, line 109).
OtherKinds == {"binary", "ping", "pong"}

\* ------------------------------------------------------------------ state

VARIABLES
  pc,          \* position of each connection's handle_socket invocation
  lock,        \* holder of the registry mutex, or NoConn
  connections, \* keys of the registry; the entry of c holds c's own Sender
  task,        \* state of each connection's forwarding task (send_task)
  abortReq,    \* send_task.abort() has been called for the connection
  chan,        \* per-connection channel as seen by its single Receiver
  sharedBuf,   \* values retained by the shared channel state.tx
  sharedRx,    \* number of live Receivers of the shared channel
  out,         \* text frames written to each connection's outbound stream
  published,   \* history of state.tx.send calls
  why,         \* how each forwarding task left its loop
  nsent,       \* sends performed on registry Senders (OpenSpec only)
  arrivals,    \* number of connections still to arrive
  allJoined,   \* every connection of ConnSeq has been connected at one time
  last,        \* the step just taken: a publication, a discarded frame, or other
  call,        \* the call of a library function of src/examples in progress
  todos,       \* 18_web_development.rs: AppState.todos, the shared todo list
  resp,        \* 18_web_development.rs: the request just served and its response
  values,      \* 14_performance.rs: the slice passed to parallel_sum
  chunks,      \* the chunks values.chunks(chunk_size) yields
  worker,      \* state of the thread spawned for each chunk
  rxq,         \* sums sent on the mpsc channel and not yet received
  sumMain,     \* the thread that called parallel_sum
  example,     \* 08_concurrency.rs: the example that runs
  counter,     \* the shared counter (Mutex<i32> or AtomicUsize)
  holder,      \* the thread that holds the counter's mutex, or 0
  thr,         \* state of each spawned thread
  ctrMain      \* the thread that runs the example

\* The state of the chat service.
chatVars ==
  << pc, lock, connections, task, abortReq, chan, sharedBuf, sharedRx, out,
     published, why, nsent, arrivals, allJoined, last >>

\* The state of the library functions of src/examples.
libVars ==
  << call, todos, resp, values, chunks, worker, rxq, sumMain,
     example, counter, holder, thr, ctrMain >>

\* The state of parallel_sum of 14_performance.rs.
sumVars == << values, chunks, worker, rxq, sumMain >>

\* The state of the counter examples of 08_concurrency.rs.
ctrVars == << example, counter, holder, thr, ctrMain >>

\* The state of the todo API of 18_web_development.rs.
todoVars == << todos, resp >>

vars == << chatVars, libVars >>

\* No library call is in progress: the chat service runs on its own.
NoCall == [fn |-> "none"]

\* No request has been served.
NoResp == [op |-> "none", id |-> 0, status |-> 0, body |-> << >>]

\* The todo API is not running.
TodoIdle == todos = << >> /\ resp = NoResp

\* parallel_sum has not been called.
SumIdle ==
  /\ values = << >>
  /\ chunks = << >>
  /\ worker = << >>
  /\ rxq = << >>
  /\ sumMain = [pc |-> "idle"]

\* No counter example runs.
CtrIdle ==
  /\ example = "none"
  /\ counter = 0
  /\ holder = 0
  /\ thr = << >>
  /\ ctrMain = [pc |-> "idle"]

\* None of the programs of src/examples is running.
ExamplesIdle == call = NoCall /\ TodoIdle /\ SumIdle /\ CtrIdle

EmptyChan == [q |-> << >>, missed |-> 0]

\* A step of kind k ("publish", "malformed", "other", "close", "end", or
\* "step" for every other step); only a publication records the connection
\* it is on.
Ev(k) == [kind |-> k, conn |-> NoConn]

\* The chat service after main has built the state (lines 43-50) and before
\* any client has connected; n clients are still to arrive.
ChatInit(n) ==
  /\ pc = [c \in Conns |-> "idle"]
  /\ lock = NoConn
  /\ connections = {}
  /\ task = [c \in Conns |-> "none"]
  /\ abortReq = [c \in Conns |-> FALSE]
  /\ chan = [c \in Conns |-> EmptyChan]
  /\ sharedBuf = << >>
  /\ sharedRx = 0
  /\ out = [c \in Conns |-> << >>]
  /\ published = << >>
  /\ why = [c \in Conns |-> "none"]
  /\ nsent = 0
  /\ arrivals = n
  /\ allJoined = FALSE
  /\ last = Ev("step")

Init ==
  /\ ChatInit(Len(ConnSeq))
  /\ ExamplesIdle

\* ------------------------------------------------- broadcast channel model

\* broadcast::Sender::send on a channel with one Receiver: the value is
\* retained; once more than Capacity values are unread the oldest is
\* overwritten and the Receiver is marked as having missed it.
ChanSend(ch, m) ==
  IF Len(ch.q) < Capacity
  THEN [ch EXCEPT !.q = Append(@, m)]
  ELSE [q |-> Append(Tail(ch.q), m), missed |-> ch.missed + 1]

\* broadcast::Receiver::recv: Err(Lagged) once after values were missed,
\* otherwise the oldest retained value, otherwise Err(Closed) when every
\* Sender is gone, otherwise the future is pending.
ChanRecv(ch, txAlive) ==
  IF ch.missed > 0
  THEN [kind |-> "lagged", msg |-> NoMsg, ch |-> [ch EXCEPT !.missed = 0]]
  ELSE IF ch.q # << >>
  THEN [kind |-> "ok", msg |-> Head(ch.q), ch |-> [ch EXCEPT !.q = Tail(@)]]
  ELSE IF ~txAlive
  THEN [kind |-> "closed", msg |-> NoMsg, ch |-> ch]
  ELSE [kind |-> "pending", msg |-> NoMsg, ch |-> ch]

\* The send as it would be if the channel retained a value sent with no
\* live Receiver.
SharedSendRetains(buf, nrx, m) ==
  IF Len(buf) < Capacity THEN Append(buf, m)
  ELSE Append(Tail(buf), m)

\* state.tx.send(chat_message) (line 105) on the shared channel: with no live
\* Receiver the send returns Err and retains nothing.
SharedSend(buf, nrx, m) ==
  IF nrx = 0 THEN buf
  ELSE IF Len(buf) < Capacity THEN Append(buf, m)
  ELSE Append(Tail(buf), m)

\* The Sender of c's own channel is alive: still a local of the handler
\* (lines 83-85) or stored in the registry (lines 86-116).
TxAlive(c) == pc[c] = "new" \/ c \in connections

\* The Receiver of c's own channel is alive: a local of the handler until it
\* is moved into the spawned task (line 90), then owned by the task.
RxAlive(c) ==
  \/ task[c] = "none" /\ pc[c] \in {"new", "inserted", "registered"}
  \/ task[c] \in {"ready", "running", "parked"}

\* The forwarding task of c exists and has not ended.
TaskLive(c) == task[c] \in {"ready", "running", "parked"}

\* c is connected: registered, reader in its loop, forwarding task running.
Connected(c) ==
  /\ pc[c] = "reading"
  /\ c \in connections
  /\ TaskLive(c)
  /\ ~abortReq[c]

\* ------------------------------------------------------- handler: connect

\* Lines 77-83: split the socket, draw the id, create the connection's own
\* channel (tx, rx).
Accept(c) ==
  /\ UNCHANGED libVars
  /\ pc[c] = "idle"
  /\ \A e \in Earlier(c) : pc[e] # "idle"
  /\ arrivals > 0
  /\ arrivals' = arrivals - 1
  /\ pc' = [pc EXCEPT ![c] = "new"]
  /\ chan' = [chan EXCEPT ![c] = EmptyChan]
  /\ last' = Ev("step")
  /\ UNCHANGED << lock, connections, task, abortReq, sharedBuf, sharedRx, out,
                  published, why, nsent, allJoined >>

\* Lines 85-86: state.connections.lock().unwrap() returns once the mutex is
\* free, and connections.insert(connection_id.clone(), tx) runs under it.
Insert(c) ==
  /\ UNCHANGED libVars
  /\ pc[c] = "new"
  /\ lock = NoConn
  /\ lock' = c
  /\ connections' = connections \cup {c}
  /\ pc' = [pc EXCEPT ![c] = "inserted"]
  /\ last' = Ev("step")
  /\ UNCHANGED << task, abortReq, chan, sharedBuf, sharedRx, out,
                  published, why, nsent, arrivals, allJoined >>

\* The insert as it would be without the block of lines 84-87: the guard
\* lives on to the end of the function and is held across the read loop.
UnlockInsertHeld(c) ==
  /\ UNCHANGED libVars
  /\ pc[c] = "inserted"
  /\ lock' = lock
  /\ pc' = [pc EXCEPT ![c] = "registered"]
  /\ last' = Ev("step")
  /\ UNCHANGED << connections, task, abortReq, chan, sharedBuf, sharedRx, out,
                  published, why, nsent, arrivals, allJoined >>

\* Line 87: the guard goes out of scope.
UnlockInsert(c) ==
  /\ UNCHANGED libVars
  /\ pc[c] = "inserted"
  /\ lock' = NoConn
  /\ pc' = [pc EXCEPT ![c] = "registered"]
  /\ last' = Ev("step")
  /\ UNCHANGED << connections, task, abortReq, chan, sharedBuf, sharedRx, out,
                  published, why, nsent, arrivals, allJoined >>

\* Lines 90-97: tokio::spawn of the forwarding task; the handler goes on to
\* its read loop (line 100).
Spawn(c) ==
  /\ UNCHANGED libVars
  /\ pc[c] = "registered"
  /\ task' = [task EXCEPT ![c] = "ready"]
  /\ pc' = [pc EXCEPT ![c] = "reading"]
  /\ allJoined' = (allJoined \/ \A x \in Conns \ {c} : Connected(x))
  /\ last' = Ev("step")
  /\ UNCHANGED << lock, connections, abortReq, chan, sharedBuf, sharedRx, out,
                  published, why, nsent, arrivals >>

\* --------------------------------------------------- handler: read loop

\* Publish as it would be if the reader sent on every Sender of the registry:
\* each registered connection's own channel gains the value and a parked
\* forwarding task is woken.
PublishToRegistry(m) ==
  [sharedBuf |-> sharedBuf,
   chan |-> [c \in Conns |->
               IF c \in connections /\ RxAlive(c)
               THEN ChanSend(chan[c], m) ELSE chan[c]],
   task |-> [c \in Conns |->
               IF c \in connections /\ task[c] = "parked"
               THEN "ready" ELSE task[c]]]

\* state.tx.send(chat_message) (line 105): its effect on the shared channel,
\* on the per-connection channels and on the forwarding tasks.  The send
\* goes to the shared channel alone: the channels the forwarding tasks drain
\* are other channels (line 83), so none of them gains a value and no task
\* is woken.
Publish(m) ==
  [sharedBuf |-> SharedSend(sharedBuf, sharedRx, m),
   chan |-> chan,
   task |-> task]

\* Lines 102-107: a text frame.  When it decodes, the message is sent on the
\* shared channel and the result of the send is discarded; when it does not,
\* nothing happens.  Either way the loop goes on.
RecvText(c, t) ==
  /\ UNCHANGED libVars
  /\ pc[c] = "reading"
  /\ Decode(t).ok => Len(published) < MaxPublish
  /\ IF Decode(t).ok
     THEN /\ sharedBuf' = Publish(Decode(t).msg).sharedBuf
          /\ chan' = Publish(Decode(t).msg).chan
          /\ task' = Publish(Decode(t).msg).task
          /\ published' = Append(published, Decode(t).msg)
          /\ last' = [kind |-> "publish", conn |-> c]
     ELSE /\ UNCHANGED << sharedBuf, chan, task, published >>
          /\ last' = Ev("malformed")
  /\ UNCHANGED << pc, lock, connections, abortReq, sharedRx, out, why, nsent,
                  arrivals, allJoined >>

\* Line 108: a close frame leaves the loop.
RecvClose(c) ==
  /\ UNCHANGED libVars
  /\ pc[c] = "reading"
  /\ pc' = [pc EXCEPT ![c] = "closing"]
  /\ last' = Ev("close")
  /\ UNCHANGED << lock, connections, task, abortReq, chan, sharedBuf, sharedRx,
                  out, published, why, nsent, arrivals, allJoined >>

\* The match as it would be with `_ => break`: a frame of another kind
\* leaves the loop.
RecvOtherBreaks(c, k) ==
  /\ UNCHANGED libVars
  /\ pc[c] = "reading"
  /\ k \in OtherKinds
  /\ pc' = [pc EXCEPT ![c] = "closing"]
  /\ last' = Ev("other")
  /\ UNCHANGED << lock, connections, task, abortReq, chan, sharedBuf,
                  sharedRx, out, published, why, nsent, arrivals, allJoined >>

\* Line 109: any other frame kind is ignored.
RecvOther(c, k) ==
  /\ UNCHANGED libVars
  /\ pc[c] = "reading"
  /\ k \in OtherKinds
  /\ last' = Ev("other")
  /\ UNCHANGED << pc, lock, connections, task, abortReq, chan, sharedBuf,
                  sharedRx, out, published, why, nsent, arrivals, allJoined >>

\* Line 100: receiver.next() yields None (stream ended) or Some(Err(_)): the
\* `while let Some(Ok(..))` pattern fails and the loop is left.
RecvEnd(c) ==
  /\ UNCHANGED libVars
  /\ pc[c] = "reading"
  /\ pc' = [pc EXCEPT ![c] = "closing"]
  /\ last' = Ev("end")
  /\ UNCHANGED << lock, connections, task, abortReq, chan, sharedBuf, sharedRx,
                  out, published, why, nsent, arrivals, allJoined >>

\* ------------------------------------------------------ handler: teardown

\* abort() as it would be if it marked the task cancelled whatever its
\* state, overwriting the record of a task that has already ended.
AbortOverwrites(c) ==
  /\ UNCHANGED libVars
  /\ pc[c] = "closing"
  /\ abortReq' = [abortReq EXCEPT ![c] = TRUE]
  /\ task' = [task EXCEPT ![c] = "cancelled"]
  /\ why' = [why EXCEPT ![c] = "aborted"]
  /\ pc' = [pc EXCEPT ![c] = "aborted"]
  /\ last' = Ev("step")
  /\ UNCHANGED << lock, connections, chan, sharedBuf, sharedRx, out,
                  published, nsent, arrivals, allJoined >>

\* Line 114: send_task.abort().  The call only requests cancellation; it has
\* no effect on a task that has already ended.
Abort(c) ==
  /\ UNCHANGED libVars
  /\ pc[c] = "closing"
  /\ abortReq' = [abortReq EXCEPT ![c] = TRUE]
  /\ pc' = [pc EXCEPT ![c] = "aborted"]
  /\ last' = Ev("step")
  /\ UNCHANGED << lock, connections, task, chan, sharedBuf, sharedRx, out,
                  published, why, nsent, arrivals, allJoined >>

\* Remove as it would be with a key that is not in the map.
RemoveNothing(c) ==
  /\ UNCHANGED libVars
  /\ pc[c] = "aborted"
  /\ lock = NoConn
  /\ lock' = c
  /\ connections' = connections
  /\ pc' = [pc EXCEPT ![c] = "removed"]
  /\ last' = Ev("step")
  /\ UNCHANGED << task, abortReq, chan, sharedBuf, sharedRx, out,
                  published, why, nsent, arrivals, allJoined >>

\* Remove as it would be if it cleared the map.
RemoveAll(c) ==
  /\ UNCHANGED libVars
  /\ pc[c] = "aborted"
  /\ lock = NoConn
  /\ lock' = c
  /\ connections' = {}
  /\ pc' = [pc EXCEPT ![c] = "removed"]
  /\ last' = Ev("step")
  /\ UNCHANGED << task, abortReq, chan, sharedBuf, sharedRx, out,
                  published, why, nsent, arrivals, allJoined >>

\* Lines 115-116: state.connections.lock().unwrap() returns once the mutex
\* is free, and connections.remove(&connection_id) runs under it; the
\* removed Sender is dropped.
Remove(c) ==
  /\ UNCHANGED libVars
  /\ pc[c] = "aborted"
  /\ lock = NoConn
  /\ lock' = c
  /\ connections' = connections \ {c}
  /\ pc' = [pc EXCEPT ![c] = "removed"]
  /\ last' = Ev("step")
  /\ UNCHANGED << task, abortReq, chan, sharedBuf, sharedRx, out,
                  published, why, nsent, arrivals, allJoined >>

\* Line 117: the function returns and the guard is dropped.
Return(c) ==
  /\ UNCHANGED libVars
  /\ pc[c] = "removed"
  /\ lock' = NoConn
  /\ pc' = [pc EXCEPT ![c] = "done"]
  /\ last' = Ev("step")
  /\ UNCHANGED << connections, task, abortReq, chan, sharedBuf, sharedRx, out,
                  published, why, nsent, arrivals, allJoined >>

\* ------------------------------------------------------- forwarding task

\* The runtime starts polling a scheduled task.  A task whose cancellation
\* was requested is not polled again.
TaskPoll(c) ==
  /\ UNCHANGED libVars
  /\ task[c] = "ready"
  /\ ~abortReq[c]
  /\ task' = [task EXCEPT ![c] = "running"]
  /\ last' = Ev("step")
  /\ UNCHANGED << pc, lock, connections, abortReq, chan, sharedBuf, sharedRx,
                  out, published, why, nsent, arrivals, allJoined >>

\* Lines 91-96: one turn of `while let Ok(msg) = rx.recv().await { .. }`.
\* Ok(msg): the message is serialized and written; a failed write breaks the
\* loop.  Any Err (Lagged or Closed) fails the pattern and ends the loop.
\* A pending recv yields: the task parks, or is dropped when its
\* cancellation was requested.
SendTaskStep(c) ==
  /\ UNCHANGED libVars
  /\ task[c] = "running"
  /\ LET r == ChanRecv(chan[c], TxAlive(c)) IN
       /\ chan' = [chan EXCEPT ![c] = r.ch]
       /\ IF r.kind = "ok"
          THEN \E written \in BOOLEAN :
                 IF written
                 THEN /\ out' = [out EXCEPT ![c] = Append(@, Serialize(r.msg))]
                      /\ UNCHANGED << task, why >>
                 ELSE /\ task' = [task EXCEPT ![c] = "finished"]
                      /\ why' = [why EXCEPT ![c] = "write_error"]
                      /\ UNCHANGED out
          ELSE IF r.kind \in {"lagged", "closed"}
          THEN /\ task' = [task EXCEPT ![c] = "finished"]
               /\ why' = [why EXCEPT ![c] = r.kind]
               /\ UNCHANGED out
          ELSE /\ task' = [task EXCEPT ![c] =
                             IF abortReq[c] THEN "cancelled" ELSE "parked"]
               /\ why' = [why EXCEPT ![c] =
                             IF abortReq[c] THEN "aborted" ELSE @]
               /\ UNCHANGED out
  /\ UNCHANGED << pc, lock, connections, abortReq, sharedBuf, sharedRx,
                  published, nsent, arrivals, allJoined >>
  /\ last' = Ev("step")

\* The runtime drops a task whose cancellation was requested while it was
\* scheduled or parked (the effect of line 114 on a task that is not being
\* polled).
TaskCancel(c) ==
  /\ UNCHANGED libVars
  /\ abortReq[c]
  /\ task[c] \in {"ready", "parked"}
  /\ task' = [task EXCEPT ![c] = "cancelled"]
  /\ why' = [why EXCEPT ![c] = "aborted"]
  /\ last' = Ev("step")
  /\ UNCHANGED << pc, lock, connections, abortReq, chan, sharedBuf, sharedRx,
                  out, published, nsent, arrivals, allJoined >>

\* ------------------------------------------------------- specifications

Next ==
  \E c \in Conns :
    \/ Accept(c)
    \/ Insert(c)
    \/ UnlockInsert(c)
    \/ Spawn(c)
    \/ \E t \in Texts : RecvText(c, t)
    \/ RecvClose(c)
    \/ \E k \in OtherKinds : RecvOther(c, k)
    \/ RecvEnd(c)
    \/ Abort(c)
    \/ Remove(c)
    \/ Return(c)
    \/ TaskPoll(c)
    \/ SendTaskStep(c)
    \/ TaskCancel(c)

\* The program as it is.
Spec == Init /\ [][Next]_vars

\* Steps the program takes on its own: the handler between two awaits of
\* peer input, and the forwarding task whenever the runtime can run it.
Internal(c) ==
  \/ Insert(c) \/ UnlockInsert(c) \/ Spawn(c)
  \/ Abort(c) \/ Remove(c) \/ Return(c)
  \/ TaskPoll(c) \/ SendTaskStep(c) \/ TaskCancel(c)

\* The runtime runs every runnable task; nothing forces a peer to send.
Fairness == \A c \in Conns : WF_vars(Internal(c))

FairSpec == Spec /\ Fairness

\* ------------------------------------------- the forwarding task, driven

\* The registry stores each connection's Sender (lines 32 and 86) but no
\* code of the program ever sends on one, so under Spec a forwarding task
\* never receives anything and the body of its loop (lines 92-95) is dead.
\* OpenSpec runs two connections with their registered Senders driven from
\* outside, which is the only way the loop body can run at all.

\* broadcast::Sender::send on the Sender registered for c: the value is
\* retained for c's Receiver and a parked forwarding task is woken; with no
\* live Receiver the send returns Err and retains nothing.
RegistrySend(c, m) ==
  /\ UNCHANGED libVars
  /\ c \in connections
  /\ nsent < MaxSends
  /\ nsent' = nsent + 1
  /\ chan' = [chan EXCEPT ![c] = IF RxAlive(c) THEN ChanSend(@, m) ELSE @]
  /\ task' = [task EXCEPT ![c] = IF @ = "parked" THEN "ready" ELSE @]
  /\ last' = Ev("step")
  /\ UNCHANGED << pc, lock, connections, abortReq, sharedBuf, sharedRx, out,
                  published, why, arrivals, allJoined >>

OpenInit ==
  /\ ChatInit(2)
  /\ ExamplesIdle

OpenNext ==
  \/ Next
  \/ \E c \in Conns, m \in Msgs : RegistrySend(c, m)

OpenSpec == OpenInit /\ [][OpenNext]_vars

FairOpenSpec == OpenSpec /\ Fairness

\* One connection alone with its registered Sender driven from outside.
SoloInit ==
  /\ ChatInit(1)
  /\ ExamplesIdle

FairSoloSpec == SoloInit /\ [][OpenNext]_vars /\ Fairness

\* ===================================================== library functions
\* src/examples/12_testing.rs and src/examples/13_documentation.rs

\* The range of i32.
I32Max == 2147483647

I32Min == -I32Max - 1

\* Argument values of the calls: the ends of the range, values next to
\* them, and small values of both signs.
I32Samples ==
  { I32Min, I32Min + 1, -7, -2, -1, 0, 1, 2, 3, 7, I32Max - 1, I32Max }

\* Outcomes of a call: a returned value or a panic with its message.
NoPoint == [x |-> 0, y |-> 0]

Returned(v) ==
  [status |-> "returned", value |-> v, point |-> NoPoint, msg |-> ""]

ReturnedPoint(p) ==
  [status |-> "returned", value |-> 0, point |-> p, msg |-> ""]

Panicked(m) ==
  [status |-> "panicked", value |-> 0, point |-> NoPoint, msg |-> m]

\* The mathematical sum of a and b lies outside the range of i32.
Overflows(a, b) ==
  \/ b > 0 /\ a > I32Max - b
  \/ b < 0 /\ a < I32Min - b

\* The two's-complement sum of a and b modulo 2^32.
WrappingAdd(a, b) ==
  IF b > 0 /\ a > I32Max - b THEN (a + I32Min) + (b + I32Min)
  ELSE IF b < 0 /\ a < I32Min - b THEN (a - I32Min) + (b - I32Min)
  ELSE a + b

\* The operator `+` on i32.  With overflow checks (the dev and test
\* profiles) an overflowing sum panics; without them (the release profile)
\* it wraps.
I32Add(a, b, checks) ==
  IF Overflows(a, b)
  THEN IF checks THEN Panicked("attempt to add with overflow")
       ELSE Returned(WrappingAdd(a, b))
  ELSE Returned(a + b)

\* The quotient of a by n > 0, truncated toward zero.
TruncDivPos(a, n) ==
  IF a >= 0 THEN a \div n
  ELSE (a \div n) + (IF a % n # 0 THEN 1 ELSE 0)

\* The quotient of a by b # 0, truncated toward zero, for a quotient that
\* lies in the range of i32.
TruncDiv(a, b) ==
  IF b > 0 THEN TruncDivPos(a, b)
  ELSE IF b = I32Min THEN (IF a = I32Min THEN 1 ELSE 0)
  ELSE 0 - TruncDivPos(a, 0 - b)

\* The operator `/` on i32: it panics on a zero divisor and on the one
\* quotient that does not fit, i32::MIN / -1, in every build profile.
I32Div(a, b) ==
  IF b = 0 THEN Panicked("attempt to divide by zero")
  ELSE IF a = I32Min /\ b = -1 THEN Panicked("attempt to divide with overflow")
  ELSE Returned(TruncDiv(a, b))

\* 12_testing.rs, lines 5-7.
add(a, b, checks) == I32Add(a, b, checks)

\* 12_testing.rs, lines 10-15.
divide(a, b) ==
  IF b = 0 THEN Panicked("Division by zero!")
  ELSE I32Div(a, b)

\* 12_testing.rs, lines 152-154.
documented_add(a, b, checks) == I32Add(a, b, checks)

\* Point::new as it would be with the second assertion left out.
Point_newChecksXOnly(x, y) ==
  IF ~(x >= 0) THEN Panicked("x coordinate must be non-negative")
  ELSE ReturnedPoint([x |-> x, y |-> y])

\* 13_documentation.rs, lines 50-54.
Point_new(x, y) ==
  IF ~(x >= 0) THEN Panicked("x coordinate must be non-negative")
  ELSE IF ~(y >= 0) THEN Panicked("y coordinate must be non-negative")
  ELSE ReturnedPoint([x |-> x, y |-> y])

\* 13_documentation.rs, line 145.
MAX_POINTS == 1000

\* Err(msg) of a Result; v is the number formatted into the message.
Failed(m, v) ==
  [status |-> "err", value |-> v, point |-> NoPoint, msg |-> m]

\* Slices of points passed to process_points: empty, short, and of lengths
\* around MAX_POINTS.
PointSlices ==
  { [i \in 1..n |-> [x |-> 1, y |-> 2]] :
      n \in { 0, 1, 2, MAX_POINTS - 1, MAX_POINTS, MAX_POINTS + 1,
              MAX_POINTS + 2 } }

\* process_points as it would be with `>=` in the comparison.
process_pointsAtLeast(points) ==
  IF Len(points) >= MAX_POINTS
  THEN Failed("Too many points: {}", Len(points))
  ELSE Returned(Len(points))

\* 13_documentation.rs, lines 168-173.
process_points(points) ==
  IF Len(points) > MAX_POINTS
  THEN Failed("Too many points: {}", Len(points))
  ELSE Returned(Len(points))

\* A call that has not been made yet: its two integer arguments and the
\* build profile (overflow checks on or off), or its slice argument.
PendingCalls ==
  { [fn |-> "none", a |-> a, b |-> b, checks |-> k, points |-> << >>,
     status |-> "pending", value |-> 0, point |-> NoPoint, msg |-> ""] :
      a \in I32Samples, b \in I32Samples, k \in BOOLEAN }
  \cup
  { [fn |-> "none", a |-> 0, b |-> 0, checks |-> FALSE, points |-> ps,
     status |-> "pending", value |-> 0, point |-> NoPoint, msg |-> ""] :
      ps \in PointSlices }

\* The call of function f has ended with outcome r.
Done(f, r) ==
  [fn |-> f, a |-> call.a, b |-> call.b, checks |-> call.checks,
   points |-> call.points,
   status |-> r.status, value |-> r.value, point |-> r.point, msg |-> r.msg]

LibInit ==
  /\ ChatInit(0)
  /\ call \in PendingCalls
  /\ TodoIdle
  /\ SumIdle
  /\ CtrIdle

Call_add ==
  /\ call.status = "pending"
  /\ call' = Done("add", add(call.a, call.b, call.checks))
  /\ UNCHANGED << chatVars, todoVars, sumVars, ctrVars >>

Call_divide ==
  /\ call.status = "pending"
  /\ call' = Done("divide", divide(call.a, call.b))
  /\ UNCHANGED << chatVars, todoVars, sumVars, ctrVars >>

Call_documented_add ==
  /\ call.status = "pending"
  /\ call' = Done("documented_add",
                  documented_add(call.a, call.b, call.checks))
  /\ UNCHANGED << chatVars, todoVars, sumVars, ctrVars >>

Call_Point_new ==
  /\ call.status = "pending"
  /\ call' = Done("Point::new", Point_new(call.a, call.b))
  /\ UNCHANGED << chatVars, todoVars, sumVars, ctrVars >>

Call_process_points ==
  /\ call.status = "pending"
  /\ call' = Done("process_points", process_points(call.points))
  /\ UNCHANGED << chatVars, todoVars, sumVars, ctrVars >>

LibNext ==
  \/ Call_process_points
  \/ Call_add
  \/ Call_divide
  \/ Call_documented_add
  \/ Call_Point_new

\* One call of one library function on arguments drawn from I32Samples.
LibSpec == LibInit /\ [][LibNext]_vars

\* ============================================================= todo API
\* src/examples/18_web_development.rs

\* Longest todo list the model lets create_todo build.
MaxTodos == 3

\* Todo ids that occur in paths and bodies.
TodoIds == 1..3

\* The list main installs (lines 98-109).
InitialTodos ==
  << [id |-> 1, title |-> "Learn Rust", completed |-> FALSE],
     [id |-> 2, title |-> "Build a web app", completed |-> FALSE] >>

\* Todo values a client sends in the body of a POST or a PUT.
BodyTodos ==
  { [id |-> i, title |-> "Sent", completed |-> TRUE] : i \in TodoIds }

\* The positions of the todos with the given id.
Positions(list, id) == { i \in 1..Len(list) : list[i].id = id }

\* iter().position(..) / iter().find(..): the first position with the id.
FirstPosition(list, id) ==
  CHOOSE p \in Positions(list, id) : \A q \in Positions(list, id) : p <= q

\* Vec::remove(pos): the list without its element at pos.
RemoveAt(list, pos) ==
  [i \in 1..(Len(list) - 1) |-> IF i < pos THEN list[i] ELSE list[i + 1]]

\* The response to request op on path id.
Response(op, id, status, body) ==
  [op |-> op, id |-> id, status |-> status, body |-> body]

TodoInit ==
  /\ ChatInit(0)
  /\ call = NoCall
  /\ todos = InitialTodos
  /\ resp = NoResp
  /\ SumIdle
  /\ CtrIdle

\* get_todos as it would be if it moved the list out of the state
\* (std::mem::take) instead of cloning it.
get_todosTakes ==
  /\ resp' = Response("get_todos", 0, 200, todos)
  /\ todos' = << >>
  /\ UNCHANGED << chatVars, call, sumVars, ctrVars >>

\* Lines 22-25: GET /todos.
get_todos ==
  /\ resp' = Response("get_todos", 0, 200, todos)
  /\ todos' = todos
  /\ UNCHANGED << chatVars, call, sumVars, ctrVars >>

\* Lines 28-38: GET /todos/{id}.
get_todo(id) ==
  /\ resp' = IF Positions(todos, id) # {}
             THEN Response("get_todo", id, 200,
                           << todos[FirstPosition(todos, id)] >>)
             ELSE Response("get_todo", id, 404, << >>)
  /\ todos' = todos
  /\ UNCHANGED << chatVars, call, sumVars, ctrVars >>

\* Lines 41-48: POST /todos.  The body is pushed as it is.
create_todo(todo) ==
  /\ Len(todos) < MaxTodos
  /\ todos' = Append(todos, todo)
  /\ resp' = Response("create_todo", todo.id, 201, << >>)
  /\ UNCHANGED << chatVars, call, sumVars, ctrVars >>

\* Lines 51-63: PUT /todos/{id}.  The first todo with the path id is
\* replaced by the body, id included.
update_todo(id, todo) ==
  /\ IF Positions(todos, id) # {}
     THEN /\ todos' = [todos EXCEPT ![FirstPosition(todos, id)] = todo]
          /\ resp' = Response("update_todo", id, 200, << >>)
     ELSE /\ todos' = todos
          /\ resp' = Response("update_todo", id, 404, << >>)
  /\ UNCHANGED << chatVars, call, sumVars, ctrVars >>

\* delete_todo as it would be with Vec::retain: every todo with the id goes.
delete_todoRetain(id) ==
  /\ IF Positions(todos, id) # {}
     THEN /\ todos' = SelectSeq(todos, LAMBDA t : t.id # id)
          /\ resp' = Response("delete_todo", id, 204, << >>)
     ELSE /\ todos' = todos
          /\ resp' = Response("delete_todo", id, 404, << >>)
  /\ UNCHANGED << chatVars, call, sumVars, ctrVars >>

\* Lines 66-77: DELETE /todos/{id}.
delete_todo(id) ==
  /\ IF Positions(todos, id) # {}
     THEN /\ todos' = RemoveAt(todos, FirstPosition(todos, id))
          /\ resp' = Response("delete_todo", id, 204, << >>)
     ELSE /\ todos' = todos
          /\ resp' = Response("delete_todo", id, 404, << >>)
  /\ UNCHANGED << chatVars, call, sumVars, ctrVars >>

\* Each handler holds the mutex from its first line to its return and
\* never awaits in between, so requests are served one at a time.
TodoNext ==
  \/ get_todos
  \/ \E id \in TodoIds : get_todo(id)
  \/ \E todo \in BodyTodos : create_todo(todo)
  \/ \E id \in TodoIds, todo \in BodyTodos : update_todo(id, todo)
  \/ \E id \in TodoIds : delete_todo(id)

TodoSpec == TodoInit /\ [][TodoNext]_vars

\* ========================================================= parallel_sum
\* src/examples/14_performance.rs

\* Longest slice passed to parallel_sum.
MaxLen == 5

\* Element values of the slices: small, so that no sum leaves the range of
\* i32.
SumValues == {1, 2}

\* Iterator::sum over a slice of i32 (lines 25 and 87).
RECURSIVE IterSum(_)
IterSum(vs) == IF vs = << >> THEN 0 ELSE Head(vs) + IterSum(Tail(vs))

\* Data::sum_unoptimized (lines 24-26): the sequential sum.
sum_unoptimized(vs) == IterSum(vs)

\* <[T]>::chunks(n) for n > 0: consecutive slices of n elements, the last
\* one shorter when n does not divide the length.
Chunks(vs, n) ==
  [k \in 1..((Len(vs) + n - 1) \div n) |->
     SubSeq(vs, (k - 1) * n + 1,
            IF k * n < Len(vs) THEN k * n ELSE Len(vs))]

SumInit ==
  /\ ChatInit(0)
  /\ call = NoCall
  /\ TodoIdle
  /\ CtrIdle
  /\ values \in UNION { [1..n -> SumValues] : n \in 0..MaxLen }
  /\ chunks = << >>
  /\ worker = << >>
  /\ rxq = << >>
  /\ sumMain = [pc |-> "called", next |-> 0, got |-> 0, acc |-> 0,
                result |-> 0]

\* Lines 79-82: the channel, chunk_size = len / 4 and values.chunks(..),
\* which panics on a chunk size of zero.
SumStart ==
  /\ sumMain.pc = "called"
  /\ LET chunk_size == Len(values) \div 4 IN
       IF chunk_size = 0
       THEN /\ sumMain' = [sumMain EXCEPT !.pc = "panicked"]
            /\ UNCHANGED << chunks, worker >>
       ELSE /\ chunks' = Chunks(values, chunk_size)
            /\ worker' = [k \in 1..Len(chunks') |-> "unspawned"]
            /\ sumMain' = [sumMain EXCEPT !.pc = "spawning", !.next = 1]
  /\ UNCHANGED << values, rxq >>
  /\ UNCHANGED << chatVars, call, todoVars, ctrVars >>

\* Lines 82-90: one turn of the for loop spawns the thread of the next
\* chunk; after the last chunk the loop ends.
SumSpawn ==
  /\ sumMain.pc = "spawning"
  /\ IF sumMain.next <= Len(chunks)
     THEN /\ worker' = [worker EXCEPT ![sumMain.next] = "running"]
          /\ sumMain' = [sumMain EXCEPT !.next = @ + 1]
     ELSE /\ sumMain' = [sumMain EXCEPT !.pc = "collecting"]
          /\ UNCHANGED worker
  /\ UNCHANGED << values, chunks, rxq >>
  /\ UNCHANGED << chatVars, call, todoVars, ctrVars >>

\* Lines 87-88: the thread sums its chunk and sends the sum; the unwrap
\* panics in the thread when the Receiver is gone (parallel_sum returned).
WorkerSend(k) ==
  /\ k \in DOMAIN worker
  /\ worker[k] = "running"
  /\ IF sumMain.pc = "returned"
     THEN /\ worker' = [worker EXCEPT ![k] = "panicked"]
          /\ UNCHANGED rxq
     ELSE /\ worker' = [worker EXCEPT ![k] = "sent"]
          /\ rxq' = Append(rxq, IterSum(chunks[k]))
  /\ UNCHANGED << values, chunks, sumMain >>
  /\ UNCHANGED << chatVars, call, todoVars, ctrVars >>

\* Line 93: rx.iter().take(4).sum() takes the next of its four items; it
\* blocks while the channel is empty.
SumRecv ==
  /\ sumMain.pc = "collecting"
  /\ sumMain.got < 4
  /\ rxq # << >>
  /\ sumMain' = [sumMain EXCEPT !.got = @ + 1, !.acc = @ + Head(rxq)]
  /\ rxq' = Tail(rxq)
  /\ UNCHANGED << values, chunks, worker >>
  /\ UNCHANGED << chatVars, call, todoVars, ctrVars >>

\* Line 93: after four items take(4) yields None and the sum is returned.
SumReturn ==
  /\ sumMain.pc = "collecting"
  /\ sumMain.got = 4
  /\ sumMain' = [sumMain EXCEPT !.pc = "returned", !.result = sumMain.acc]
  /\ UNCHANGED << values, chunks, worker, rxq >>
  /\ UNCHANGED << chatVars, call, todoVars, ctrVars >>

SumNext ==
  \/ SumStart
  \/ SumSpawn
  \/ \E k \in 1..MaxLen : WorkerSend(k)
  \/ SumRecv
  \/ SumReturn

\* One call of parallel_sum under every scheduling of its threads.
SumSpec == SumInit /\ [][SumNext]_vars

\* ====================================================== counter examples
\* src/examples/08_concurrency.rs

\* Number of threads each example spawns.  The program spawns 10 (lines 44
\* and 69); the model scales the number down.
NumThreads == 5

Threads == 1..NumThreads

CtrInit ==
  /\ ChatInit(0)
  /\ call = NoCall
  /\ TodoIdle
  /\ SumIdle
  /\ example \in {"shared_state", "atomic"}
  /\ counter = 0
  /\ holder = 0
  /\ thr = [t \in Threads |-> [pc |-> "unspawned", tmp |-> 0, seen |-> 0]]
  /\ ctrMain = [pc |-> "spawning", i |-> 1, final |-> 0]

\* Lines 44-52 and 69-76: one turn of the spawning loop.
CtrSpawn ==
  /\ ctrMain.pc = "spawning"
  /\ thr' = [thr EXCEPT ![ctrMain.i].pc = "spawned"]
  /\ ctrMain' = IF ctrMain.i = NumThreads
                THEN [ctrMain EXCEPT !.pc = "joining", !.i = 1]
                ELSE [ctrMain EXCEPT !.i = @ + 1]
  /\ UNCHANGED << example, counter, holder >>
  /\ UNCHANGED << chatVars, call, todoVars, sumVars >>

\* counter.lock() as it would be if it did not wait for the holder.
ThreadLockNoWait(t) ==
  /\ example = "shared_state"
  /\ thr[t].pc = "spawned"
  /\ holder' = t
  /\ thr' = [thr EXCEPT ![t].pc = "locked"]
  /\ UNCHANGED << example, counter, ctrMain >>
  /\ UNCHANGED << chatVars, call, todoVars, sumVars >>

\* Line 47: counter.lock().unwrap() returns once the mutex is free.
ThreadLock(t) ==
  /\ example = "shared_state"
  /\ thr[t].pc = "spawned"
  /\ holder = 0
  /\ holder' = t
  /\ thr' = [thr EXCEPT ![t].pc = "locked"]
  /\ UNCHANGED << example, counter, ctrMain >>
  /\ UNCHANGED << chatVars, call, todoVars, sumVars >>

\* Line 48, `*num += 1`: the read of the counter.
ThreadLoad(t) ==
  /\ thr[t].pc = "locked"
  /\ thr' = [thr EXCEPT ![t].pc = "loaded", ![t].tmp = counter]
  /\ UNCHANGED << example, counter, holder, ctrMain >>
  /\ UNCHANGED << chatVars, call, todoVars, sumVars >>

\* Lines 48-49: the write of the counter, and the value the thread prints.
ThreadStore(t) ==
  /\ thr[t].pc = "loaded"
  /\ counter' = thr[t].tmp + 1
  /\ thr' = [thr EXCEPT ![t].pc = "stored", ![t].seen = thr[t].tmp + 1]
  /\ UNCHANGED << example, holder, ctrMain >>
  /\ UNCHANGED << chatVars, call, todoVars, sumVars >>

\* Line 50: the closure ends and the guard is dropped.
ThreadUnlock(t) ==
  /\ thr[t].pc = "stored"
  /\ holder' = IF holder = t THEN 0 ELSE holder
  /\ thr' = [thr EXCEPT ![t].pc = "done"]
  /\ UNCHANGED << example, counter, ctrMain >>
  /\ UNCHANGED << chatVars, call, todoVars, sumVars >>

\* Lines 72-74: counter.fetch_add(1, Ordering::SeqCst), one atomic step
\* that returns the value before the addition; then the closure ends.
ThreadFetchAdd(t) ==
  /\ example = "atomic"
  /\ thr[t].pc = "spawned"
  /\ counter' = counter + 1
  /\ thr' = [thr EXCEPT ![t].pc = "done", ![t].seen = counter]
  /\ UNCHANGED << example, holder, ctrMain >>
  /\ UNCHANGED << chatVars, call, todoVars, sumVars >>

\* Lines 55-57 and 79-81: handle.join() returns once the thread has ended.
CtrJoin ==
  /\ ctrMain.pc = "joining"
  /\ thr[ctrMain.i].pc = "done"
  /\ ctrMain' = IF ctrMain.i = NumThreads
                THEN [ctrMain EXCEPT !.pc = "reading"]
                ELSE [ctrMain EXCEPT !.i = @ + 1]
  /\ UNCHANGED << example, counter, holder, thr >>
  /\ UNCHANGED << chatVars, call, todoVars, sumVars >>

\* Lines 59 and 83: the final read of the counter, under the mutex in
\* shared_state_example.
CtrRead ==
  /\ ctrMain.pc = "reading"
  /\ example = "shared_state" => holder = 0
  /\ ctrMain' = [ctrMain EXCEPT !.pc = "done", !.final = counter]
  /\ UNCHANGED << example, counter, holder, thr >>
  /\ UNCHANGED << chatVars, call, todoVars, sumVars >>

CtrNext ==
  \/ CtrSpawn
  \/ \E t \in Threads :
       \/ ThreadLock(t)
       \/ ThreadLoad(t)
       \/ ThreadStore(t)
       \/ ThreadUnlock(t)
       \/ ThreadFetchAdd(t)
  \/ CtrJoin
  \/ CtrRead

\* One run of shared_state_example or of atomic_example under every
\* interleaving of its threads.
CtrSpec == CtrInit /\ [][CtrNext]_vars

\* ----------------------------------------------------- claims: helpers

\* Number of occurrences of x in the sequence seq.
Count(seq, x) == Cardinality({ i \in DOMAIN seq : seq[i] = x })

\* The message of the latest publication.
LastMsg == published[Len(published)]

\* Message m has been written to the outbound stream of s.
Written(s, m) == Count(out[s], Serialize(m)) >= 1

\* A text frame that is not the JSON of a ChatMessage (section 6 of the
\* specification): not a JSON object, or a required field is absent.
Malformed(t) == ~t.json \/ ~(Required \subseteq t.keys)

\* A step of the teardown of connection b (lines 113-117), the cancellation
\* of its forwarding task included.
TeardownStep(b) ==
  Abort(b) \/ Remove(b) \/ Return(b) \/ TaskCancel(b)

\* Every other connection keeps its registry entry, its reader position and
\* its forwarding-task state across the step.
OthersUntouched(a) ==
  \A b \in Conns \ {a} :
    /\ pc'[b] = pc[b]
    /\ task'[b] = task[b]
    /\ abortReq'[b] = abortReq[b]
    /\ why'[b] = why[b]
    /\ (b \in connections') = (b \in connections)

\* The program has no step left to take on its own: every handler awaits
\* its peer and every forwarding task is parked or has ended.
Settled == \A c \in Conns : ~ENABLED Internal(c)

\* ------------------------------------------------------------ claim C1

\* C1: chat delivery.  Every valid message that a connection publishes while
\* another connection s is connected (registered, forwarding task running)
\* and not lagging is eventually written to the outbound stream of s, and
\* written once.  Stated on a state a run may stay in for ever: when the
\* step just taken was the publication and the program has no step left to
\* take on its own, s holds the message, in no more copies than published.
C1_Delivery ==
  \A s \in Conns :
    ( /\ last.kind = "publish"
      /\ last.conn # s
      /\ Connected(s)
      /\ chan[s].missed = 0
      /\ Settled )
    => /\ Written(s, LastMsg)
       /\ Count(out[s], Serialize(LastMsg)) <= Count(published, LastMsg)

\* ------------------------------------------------------------ claim C2

\* C2: delivery survives another client's disconnect.  With a, b and c
\* connected, once the teardown of b has run, a valid message then published
\* by a, with a's reader and c's forwarding task still running, is
\* eventually written to the outbound stream of c.  Stated on a state a run
\* may stay in for ever, as C1.
C2_DeliverySurvivesDisconnect ==
  \A a \in Conns, b \in Conns, c \in Conns :
    ( /\ a # b /\ b # c /\ a # c
      /\ allJoined
      /\ pc[b] = "done"
      /\ last = [kind |-> "publish", conn |-> a]
      /\ Connected(a)
      /\ Connected(c)
      /\ chan[c].missed = 0
      /\ Settled )
    => Written(c, LastMsg)

\* ------------------------------------------------------------ claim C3

C4_MalformedContained ==
  [][\A c \in Conns, t \in { x \in Texts : Malformed(x) } :
       RecvText(c, t)
         => /\ pc'[c] = "reading"
            /\ c \in connections'
            /\ published' = published
            /\ sharedBuf' = sharedBuf
            /\ chan' = chan
            /\ out' = out
            /\ task' = task]_vars

\* A malformed frame has just been discarded on a connection that is still
\* connected beside another one.
C4_Witness ==
  /\ last.kind = "malformed"
  /\ \E a \in Conns, b \in Conns : a # b /\ Connected(a) /\ Connected(b)

\* ------------------------------------------------------------ claim C5

\* A connection is open from the moment its handler has set it up until its
\* read loop ends.
Open(c) == pc[c] = "reading"

\* No connect (lines 77-97) and no disconnect (lines 113-117) is in progress.
Quiescent == \A c \in Conns : pc[c] \in {"idle", "reading", "done"}

\* C5: registry accounting.  Whenever no connect or disconnect is in
\* progress, the registry holds exactly one entry per open connection.
C5_RegistryAccounting ==
  Quiescent =>
    /\ Cardinality(connections) = Cardinality({ c \in Conns : Open(c) })
    /\ connections = { c \in Conns : Open(c) }

\* Quiescent with one connection gone and two still open.
C5_Witness ==
  /\ Quiescent
  /\ \E a \in Conns : pc[a] = "done"
  /\ Cardinality({ c \in Conns : Open(c) }) = 2

\* ------------------------------------------------------------ claim C6

\* C6: overflow skips, it does not stop.  When a subscriber has missed
\* messages because more than Capacity were sent to it unread, its
\* forwarding task keeps running: no step ends the task of a lagging
\* connection whose cancellation has not been requested.
C6_LagNotFatal ==
  [][\A c \in Conns :
       (chan[c].missed > 0 /\ TaskLive(c) /\ ~abortReq'[c])
         => task'[c] \in {"ready", "running", "parked"}]_vars

\* ------------------------------------------------------------ claim C8

\* C8: message integrity and no duplication.  Every text written to an
\* outbound stream carries the username, content and timestamp of a
\* published message; no connection is written more copies of a message
\* than were published; and the sender is written its own message once (on
\* a state a run may stay in for ever: the publication was the step just
\* taken and the program has no step left to take on its own).
C8_IntegrityNoDuplication ==
  /\ \A c \in Conns : \A i \in DOMAIN out[c] :
       \E j \in DOMAIN published :
         /\ out[c][i].username = published[j].username
         /\ out[c][i].content = published[j].content
         /\ out[c][i].timestamp = published[j].timestamp
  /\ \A c \in Conns, m \in Msgs :
       Count(out[c], Serialize(m)) <= Count(published, m)
  /\ \A a \in Conns :
       ( /\ last = [kind |-> "publish", conn |-> a]
         /\ Connected(a)
         /\ chan[a].missed = 0
         /\ Settled )
       => Written(a, LastMsg)

\* ------------------------------------------------------------ claim C9

\* A failure or shutdown event on connection a: a discarded text frame, a
\* read error or end of stream, a close frame, a step of the teardown, or a
\* turn of a's forwarding task (where a write error happens).
FailureEvent(a) ==
  \/ \E t \in { x \in Texts : Malformed(x) } : RecvText(a, t)
  \/ RecvEnd(a)
  \/ RecvClose(a)
  \/ TeardownStep(a)
  \/ SendTaskStep(a)

\* C9: failure isolation.  An event on connection a leaves the registry
\* entry, the reader and the forwarding task of every other connection as
\* they were, and a's disconnect requests the cancellation of a's task.
C9_FailureIsolation ==
  [][\A a \in Conns :
       /\ OthersUntouched(a) \/ ~FailureEvent(a)
       /\ abortReq'[a] \/ ~Abort(a)]_vars

\* A write to a's outbound stream has failed and a has been torn down, while
\* b stays connected with a message written to its own stream.
C9_Witness ==
  \E a \in Conns, b \in Conns :
    /\ a # b
    /\ pc[a] = "done"
    /\ why[a] = "write_error"
    /\ Connected(b)
    /\ Len(out[b]) > 0

\* ----------------------------------------------------------- claim C10

\* C10: write failure leads to teardown.  Once a write to the outbound
\* stream of c has failed, the forwarding task of c has ended and the
\* registry entry of c is eventually removed, whatever the peer of c does
\* or does not send.
C10_WriteFailureTeardown ==
  \A c \in Conns :
    (why[c] = "write_error") ~> (task[c] = "finished" /\ c \notin connections)

\* ----------------------------------------------------------- claim C11

\* C11: subscription at connect.  The Receiver a forwarding task drains is a
\* subscriber of the shared channel the readers publish to: in every state
\* the shared channel has exactly one live Receiver per registered
\* connection.
C11_SubscriptionAtConnect ==
  sharedRx = Cardinality(connections)

\* ----------------------------------------------------------- claim C12

\* C12: handle/entry ordering.  For every connection, its Receiver exists
\* when its registry entry is inserted; when the entry is removed the
\* Receiver is gone (forwarding task stopped, Receiver dropped); and no
\* entry exists for a connection whose handler has returned.
C12_HandleEntryOrdering ==
  [][\A c \in Conns :
       /\ (c \notin connections /\ c \in connections') => RxAlive(c)
       /\ (c \in connections /\ c \notin connections') => ~RxAlive(c)'
       /\ pc'[c] = "done" => c \notin connections']_vars

\* ----------------------------------------------------------- claim C13

\* The handler of c is suspended at an I/O point: it awaits the next frame
\* of its inbound stream (line 100).
HandlerSuspended(c) == pc[c] = "reading"

\* C13: registry lock discipline.  The lock has at most one holder; it is
\* held only by a handler that is performing its insert or its remove; no
\* handler is suspended at an I/O point while holding it; and whenever no
\* handler is inside its insert or remove the lock is free, so that a
\* connect or a disconnect of any connection can proceed whatever the
\* suspended connections do.
C13_LockDiscipline ==
  /\ Cardinality({ c \in Conns : pc[c] \in {"inserted", "removed"} }) <= 1
  /\ \A c \in Conns :
       /\ lock = c => pc[c] \in {"inserted", "removed"}
       /\ HandlerSuspended(c) => lock # c
  /\ (\A c \in Conns : pc[c] \notin {"inserted", "removed"}) => lock = NoConn
  /\ \A c \in Conns :
       (lock = NoConn /\ pc[c] = "new") => ENABLED Insert(c)
  /\ \A c \in Conns :
       (lock = NoConn /\ pc[c] = "aborted") => ENABLED Remove(c)

\* B connects (takes the lock for its insert) while A is suspended in its
\* read loop.
C13_Witness ==
  \E a \in Conns, b \in Conns :
    /\ a # b
    /\ HandlerSuspended(a)
    /\ lock = b
    /\ pc[b] = "inserted"

\* ----------------------------------------------------------- claim C14

\* The inbound reader of c: AwaitingFrame while the handler is in its read
\* loop, Terminated once it has left the loop.
AwaitingFrame(c) == pc[c] = "reading"

Terminated(c) == pc[c] \in {"closing", "aborted", "removed", "done"}

\* A step on which a text frame or a frame of another kind was handled
\* returns the reader of c to AwaitingFrame, the other kinds publish
\* nothing, and the step that follows Terminated is the first step of the
\* teardown (line 114).
FrameRules(c) ==
  /\ AwaitingFrame(c)' \/ ~(\E t \in Texts : RecvText(c, t))
  /\ \/ /\ AwaitingFrame(c)'
        /\ published' = published
        /\ sharedBuf' = sharedBuf
        /\ chan' = chan
     \/ ~(\E k \in OtherKinds : RecvOther(c, k))
  /\ (pc[c] = "closing" /\ pc'[c] # "closing") => Abort(c)

\* The teardown of a Terminated reader can start at once: no other
\* connection can delay line 114.
TeardownTriggered ==
  \A c \in Conns : pc[c] = "closing" => ENABLED Abort(c)

\* C14 as stated: the reader moves to Terminated only on a close frame.
C14_ReaderStateMachine ==
  /\ [][\A c \in Conns :
          /\ (AwaitingFrame(c) /\ Terminated(c)') => RecvClose(c)
          /\ FrameRules(c)]_vars
  /\ []TeardownTriggered

\* C14 as amended: the reader moves to Terminated only on a close frame, a
\* read error or the end of the inbound stream.
C14_ReaderStateMachineAmended ==
  /\ [][\A c \in Conns :
          /\ (AwaitingFrame(c) /\ Terminated(c)')
               => (RecvClose(c) \/ RecvEnd(c))
          /\ FrameRules(c)]_vars
  /\ []TeardownTriggered

\* A reader has been returned to AwaitingFrame by a frame of another kind
\* while a second connection has left its loop and been torn down.
C14_Witness ==
  \E a \in Conns, b \in Conns :
    /\ a # b
    /\ last.kind = "other"
    /\ AwaitingFrame(a)
    /\ pc[b] = "done"

\* ----------------------------------------------------------- claim C15

\* The JSON object of the text carries a field other than username, content
\* and timestamp.
HasUnknownField(t) == t.json /\ ~(t.keys \subseteq Required)

\* C15: strict decoding.  A text frame whose JSON object carries an unknown
\* field is treated as malformed: handling it publishes nothing.
C15_StrictDecoding ==
  [][\A c \in Conns, t \in { x \in Texts : HasUnknownField(x) } :
       RecvText(c, t)
         => /\ published' = published
            /\ sharedBuf' = sharedBuf
            /\ last'.kind = "malformed"]_vars

\* ----------------------------------------------------------- claim C16

\* The forwarding task of c has ended by itself: a failed write, or a
\* receive that returned Err.
EndedByItself(c) ==
  task[c] = "finished" /\ why[c] \in {"write_error", "lagged", "closed"}

\* C16: idempotent, race-free cancellation.  Cancelling a forwarding task
\* that has already ended by itself changes nothing but the handler's
\* position; a task that has ended by itself, before or after the request,
\* stays as it ended; and the teardown that has requested the cancellation
\* completes with the registry entry removed.
C16_IdempotentCancellation ==
  /\ [][\A c \in Conns :
          /\ (Abort(c) /\ EndedByItself(c))
               => /\ pc'[c] = "aborted"
                  /\ task' = task /\ why' = why /\ out' = out /\ chan' = chan
                  /\ connections' = connections /\ lock' = lock
          /\ EndedByItself(c)
               => /\ task'[c] = task[c] /\ why'[c] = why[c]
                  /\ out'[c] = out[c]]_vars
  /\ \A c \in Conns :
       (pc[c] = "aborted") ~> (pc[c] = "done" /\ c \notin connections)

\* The teardown of a has completed although a's forwarding task had ended
\* on a failed write before the cancellation was requested.
C16_Witness ==
  \E a \in Conns :
    /\ pc[a] = "done"
    /\ abortReq[a]
    /\ why[a] = "write_error"
    /\ a \notin connections

\* ----------------------------------------------------------- claim C17

\* C17: publishing with no subscribers is silent.  When a reader publishes
\* a valid message while the shared channel has no live Receiver, the
\* reader stays in its loop, the connection stays registered and nothing
\* but the record of the publication changes.
C17_SilentPublish ==
  [][\A c \in Conns, t \in { x \in Texts : ~Malformed(x) } :
       (RecvText(c, t) /\ sharedRx = 0)
         => /\ pc' = pc
            /\ c \in connections'
            /\ connections' = connections
            /\ lock' = lock
            /\ sharedBuf' = sharedBuf
            /\ sharedRx' = sharedRx
            /\ chan' = chan
            /\ task' = task
            /\ abortReq' = abortReq
            /\ why' = why
            /\ out' = out]_vars

\* A valid message has just been published, with no subscriber on the
\* shared channel, by a connection that is still connected.
C17_Witness ==
  /\ last.kind = "publish"
  /\ sharedRx = 0
  /\ Connected(last.conn)

\* ----------------------------------------------------------- claim C18

\* The mathematical sum of a and b lies in the range of i32.
SumFits(a, b) ==
  IF b >= 0 THEN a <= I32Max - b ELSE a >= I32Min - b

\* C18: documented_add (and add) never panics.  For every pair of i32
\* values the call returns a value, and when the sum lies in the range of
\* i32 that value is the sum.
C18_AddNeverPanics ==
  call.fn \in {"add", "documented_add"}
    => /\ call.status = "returned"
       /\ SumFits(call.a, call.b) => call.value = call.a + call.b

\* ----------------------------------------------------------- claim C19

\* q is the quotient of a by b # 0 truncated toward zero: the remainder
\* a - q * b is smaller than b in magnitude and is zero or has the sign
\* of a.
IsTruncatedQuotient(a, b, q) ==
  LET r == a - q * b IN
    /\ r = 0 \/ ((r < 0) <=> (a < 0))
    /\ IF r >= 0
       THEN (IF b > 0 THEN r < b ELSE b < 0 - r)
       ELSE (IF b > 0 THEN 0 - b < r ELSE b < r)

\* The panic messages that contain "Division by zero".
SaysDivisionByZero == { "Division by zero!" }

\* C19: divide(a, b) panics with a message containing "Division by zero"
\* for every a when b = 0, and for every other b returns the quotient of a
\* by b truncated toward zero without panicking.
C19_Divide ==
  call.fn = "divide"
    => IF call.b = 0
       THEN call.status = "panicked" /\ call.msg \in SaysDivisionByZero
       ELSE /\ call.status = "returned"
            /\ IsTruncatedQuotient(call.a, call.b, call.value)

\* ----------------------------------------------------------- claim C20

\* C20: Point::new(x, y) panics exactly when x < 0 or y < 0; otherwise it
\* returns a Point whose fields equal the arguments.
C20_PointNew ==
  call.fn = "Point::new"
    => /\ call.status = "panicked" <=> (call.a < 0 \/ call.b < 0)
       /\ call.status # "panicked"
            => /\ call.status = "returned"
               /\ call.point.x = call.a
               /\ call.point.y = call.b

\* Point::new has panicked on a negative y with a non-negative x.
C20_Witness ==
  /\ call.fn = "Point::new"
  /\ call.a >= 0
  /\ call.b < 0
  /\ call.status = "panicked"

\* ----------------------------------------------------------- claim C21

\* C21: process_points returns an error exactly when the number of points
\* exceeds MAX_POINTS, and otherwise returns Ok with the number of points;
\* a slice of exactly MAX_POINTS points is accepted and the empty slice
\* yields Ok(0).
C21_ProcessPoints ==
  call.fn = "process_points"
    => /\ call.status = "err" <=> Len(call.points) > MAX_POINTS
       /\ call.status # "err"
            => call.status = "returned" /\ call.value = Len(call.points)
       /\ Len(call.points) = MAX_POINTS => call.status = "returned"
       /\ call.points = << >> => call.status = "returned" /\ call.value = 0

\* process_points has accepted a slice of exactly MAX_POINTS points.
C21_Witness ==
  /\ call.fn = "process_points"
  /\ Len(call.points) = MAX_POINTS
  /\ call.status = "returned"
  /\ call.value = MAX_POINTS

\* ----------------------------------------------------------- claim C22

\* C22: get_todos always answers with a success status carrying the whole
\* current list in list order, and leaves the list unchanged, whatever
\* requests preceded it.
C22_GetTodos ==
  [][get_todos
       => /\ resp'.status = 200
          /\ Len(resp'.body) = Len(todos)
          /\ \A i \in 1..Len(todos) : resp'.body[i] = todos[i]
          /\ todos' = todos]_vars

\* get_todos has answered with a list that creates, updates and deletes
\* have changed from the initial one.
C22_Witness ==
  /\ resp.op = "get_todos"
  /\ Len(todos) = MaxTodos
  /\ todos[1].id # 1
  /\ \E i \in 1..Len(todos) : todos[i].completed

\* ----------------------------------------------------------- claim C23

\* C23: after any sequence of create_todo, update_todo and delete_todo
\* calls from the initial list no two todos share an id, and a successful
\* update_todo on path id i leaves a todo with id i in the list.
C23_UniqueIds ==
  /\ \A i \in 1..Len(todos), j \in 1..Len(todos) :
       i # j => todos[i].id # todos[j].id
  /\ (resp.op = "update_todo" /\ resp.status = 200)
       => Positions(todos, resp.id) # {}

\* ----------------------------------------------------------- claim C24

\* The list after is the list before without its first todo with the id.
FirstRemoved(before, after, id) ==
  \E p \in 1..Len(before) :
    /\ before[p].id = id
    /\ \A q \in 1..(p - 1) : before[q].id # id
    /\ Len(after) = Len(before) - 1
    /\ \A q \in 1..(p - 1) : after[q] = before[q]
    /\ \A q \in p..Len(after) : after[q] = before[q + 1]

\* Some todo of the list has the id.
Present(id) == \E i \in 1..Len(todos) : todos[i].id = id

\* C24: delete_todo(id) on a list that contains id removes exactly one
\* element, the first with that id, keeps the others in their order and
\* answers 204; for an absent id it answers 404 and changes nothing, and so
\* do get_todo and update_todo.
C24_DeleteTodo ==
  [][\A id \in TodoIds :
       /\ delete_todo(id)
            => IF Present(id)
               THEN FirstRemoved(todos, todos', id) /\ resp'.status = 204
               ELSE todos' = todos /\ resp'.status = 404
       /\ (get_todo(id) /\ ~Present(id))
            => todos' = todos /\ resp'.status = 404
       /\ \A todo \in BodyTodos :
            (update_todo(id, todo) /\ ~Present(id))
              => todos' = todos /\ resp'.status = 404]_vars

\* A delete has removed one of two todos with the same id: the other one
\* is still in the list.
C24_Witness ==
  /\ resp.op = "delete_todo"
  /\ resp.status = 204
  /\ Present(resp.id)

\* ----------------------------------------------------------- claim C25

\* C25: parallel_sum(values) terminates and returns the sequential sum of
\* values for every slice and under every scheduling of the worker
\* threads: the call never panics, and what it returns is the sum.
C25_ParallelSum ==
  /\ sumMain.pc # "panicked"
  /\ sumMain.pc = "returned" => sumMain.result = sum_unoptimized(values)

\* ----------------------------------------------------------- claim C26

\* Thread t has made its increment and observed a counter value.
Observed(t) == thr[t].pc \in {"stored", "done"}

\* C26: in shared_state_example and atomic_example, under every
\* interleaving of the spawned threads, the counter read after all threads
\* have been joined equals the number of threads (no lost update), and the
\* values the threads observed at their increments are pairwise distinct.
C26_NoLostUpdate ==
  /\ ctrMain.pc = "done" => ctrMain.final = NumThreads
  /\ \A t \in Threads, u \in Threads :
       (t # u /\ Observed(t) /\ Observed(u)) => thr[t].seen # thr[u].seen

\* shared_state_example has read its final counter after the threads made
\* their increments in an order other than the order of their spawning.
C26_Witness ==
  /\ example = "shared_state"
  /\ ctrMain.pc = "done"
  /\ thr[NumThreads].seen = 1
  /\ thr[1].seen = NumThreads

====
